---- MODULE Spec2Model ----
(***************************************************************************)
(* ExpenseSense chat panel (components/ChatInterface.jsx): the React state *)
(* of the panel, the asynchronous handlers initializeConnections and       *)
(* handleSend split at their await points, and the service calls they      *)
(* await (utils/pythonRunner, utils/ollama), whose outcomes are inputs.    *)
(***************************************************************************)
EXTENDS Integers, Sequences, FiniteSets, TLC

\* ------------------------------------------------------------------ bounds
\* handleSend invocations that start a run in one behaviour of RunSpec,
\* ConnSpec and LiveSpec
MaxRuns == 1
\* handleSend invocations that start a run in one behaviour of RaceSpec
MaxOverlap == 2
\* initializeConnections invocations that may be in flight at the same time
MaxInits == 1

Runs == 1..(IF MaxRuns > MaxOverlap THEN MaxRuns ELSE MaxOverlap)
Inits == 1..MaxInits

\* ------------------------------------------------------------- vocabulary
NULL == "null"
Providers == {"ollama", "mlx"}

\* Model listings the two services can answer with (inputs of the model).
OllamaListings == {<<>>, <<"mistral", "llama3">>}
MlxListings == {<<>>, <<"qwen-mlx">>}
ModelNames == {"mistral", "llama3", "qwen-mlx"}

\* m.includes('qwen') || m.includes('llama')
IncludesQwenOrLlama(m) == m \in {"llama3", "qwen-mlx"}
\* m.includes('coder') || m.includes('llama3')
IncludesCoderOrLlama3(m) == m \in {"llama3"}

WORKFLOW_STAGES == <<"router", "specialist", "executing", "summarizing">>

StageIndex(key) == CHOOSE i \in 1..Len(WORKFLOW_STAGES) : WORKFLOW_STAGES[i] = key

\* Texts the panel shows.
BackendOfflineNotice == "Backend offline. Running in-browser (slower)..."
VisualizationAck == "I've generated a visualization for you."
AnalysisComplete == "Analysis complete."
ConnectErrorText == "Could not connect to LLM services (Ollama & Backend). Make sure they are running."
InitFailedText == "Initialization failed. Check console for details."

\* Values of the execution result string: empty, the string 'None', a compact
\* scalar, and a text of 500 characters or more.
LongResult == "LONG"
Results == {"", "None", "42", LongResult}
ResultLength(res) == IF res = LongResult THEN 500 ELSE Len(res)

\* Content of a summarizer reply.
SummaryText == "The total is 42."

\* error.message of a rejected call, by the call that rejected.
ErrorTexts == [stream |-> "pipeline failed", code |-> "code generation failed",
               python |-> "python execution failed", summary |-> "summary failed"]

Range(s) == {s[i] : i \in 1..Len(s)}
Last(s) == s[Len(s)]
\* s.find(pred), with pred given as the set of the values it accepts
Find(s, accepted) ==
  IF \E i \in 1..Len(s) : s[i] \in accepted
    THEN s[CHOOSE i \in 1..Len(s) :
             s[i] \in accepted /\ \A j \in 1..(i - 1) : s[j] \notin accepted]
    ELSE NULL

VARIABLES
  \* ---- props from App.jsx
  visible,
  \* ---- React state of ChatInterface
  messages, unreadCount, input, isLoading, isConnected, ollamaConnected,
  backendConnected, connectionError, workflowStatus,
  routerProvider, specialistProvider, summarizerProvider,
  mlxModels, ollamaModels,
  selectedRouterModel, selectedCodeModel, selectedChatModel,
  showChoiceUI, visibleRef,
  \* ---- browser storage
  localStorage,
  \* ---- one record per handleSend invocation: position, locals, history
  run,
  \* ---- one record per initializeConnections invocation in flight
  init,
  \* ---- history: flips on every handleSend call that returns at its guard
  dropFlip,
  \* ---- history: how often initPyodide has been called: "none", "once", "again"
  pyodide,
  \* ---- the last value read from performance.now()
  now,
  \* ---- LLM config: <<temperature in tenths, topP in hundredths, topK>>
  options,
  \* ---- App.jsx: the loaded rows and the filter state
  rawData, filters,
  \* ---- history: the last handleYearChange call on the loaded rows and the
  \* ---- state it set
  yearChange,
  \* ---- the imported categories.json
  categoriesData,
  \* ---- history: the last row mapped by processExcelFile and the last
  \* ---- getDashboardCategory call
  row, dashboardCategory,
  \* ---- App.jsx: dateBounds, <<>> while unset, else <<[min, max]>>
  dateBounds,
  \* ---- history: renders caused by the safeguard effects since the last handler
  effectRounds,
  \* ---- history: the last filterData call and the last sheet processed
  filtered, sheet

configVars == <<routerProvider, specialistProvider, summarizerProvider,
                mlxModels, ollamaModels, selectedRouterModel, selectedCodeModel,
                selectedChatModel, showChoiceUI, localStorage, options>>
connVars == <<isConnected, ollamaConnected, backendConnected, connectionError>>
chatVars == <<messages, unreadCount, workflowStatus>>
appVars == <<rawData, filters, yearChange, categoriesData, row, dashboardCategory,
             dateBounds, effectRounds, filtered, sheet>>
chatAll == <<visible, visibleRef, messages, unreadCount, workflowStatus, input,
             isLoading, isConnected, ollamaConnected, backendConnected,
             connectionError, routerProvider, specialistProvider,
             summarizerProvider, mlxModels, ollamaModels, selectedRouterModel,
             selectedCodeModel, selectedChatModel, showChoiceUI, localStorage,
             options, pyodide, now, run, init, dropFlip>>

vars == <<visible, messages, unreadCount, input, isLoading, isConnected,
          ollamaConnected, backendConnected, connectionError, workflowStatus,
          routerProvider, specialistProvider, summarizerProvider, mlxModels,
          ollamaModels, selectedRouterModel, selectedCodeModel, selectedChatModel,
          showChoiceUI, visibleRef, localStorage, run, init, dropFlip, pyodide, now,
          options, rawData, filters, yearChange, categoriesData, row,
          dashboardCategory, dateBounds, effectRounds, filtered, sheet>>

\* ------------------------------------------------------------ initial state
\* useState(0.0), useState(0.1), useState(10)
DefaultOptions == <<0, 10, 10>>
\* A setting of the three sliders other than the default.
OtherOptions == <<7, 90, 40>>

\* The values a handleSend invocation closed over; none before it is called.
NoClosure == [routerProvider |-> "", specialistProvider |-> "", summarizerProvider |-> "",
              selectedRouterModel |-> "", selectedCodeModel |-> "",
              selectedChatModel |-> "", options |-> <<>>,
              messages |-> <<>>, input |-> ""]

IdleRun == [pc |-> "idle", stage |-> 0, backend |-> FALSE, result |-> "",
            fig |-> FALSE, failed |-> NULL,
            validated |-> FALSE, executed |-> FALSE, fellBack |-> FALSE,
            calls |-> <<>>, closure |-> NoClosure]

IdleInit == [pc |-> "idle", ollamaOk |-> FALSE, backendOk |-> FALSE,
             ollamaAnswer |-> <<>>, mlxAnswer |-> <<>>, alone |-> TRUE]

\* Storage of a first visit, and of a visit after the provider choice was saved.
FreshStorage == [setup_done |-> FALSE, router_provider |-> NULL,
                 specialist_provider |-> NULL, summarizer_provider |-> NULL,
                 selected_router_model |-> NULL, selected_specialist_model |-> NULL,
                 selected_chat_model |-> NULL]

SavedStorages == {[setup_done |-> TRUE, router_provider |-> p,
                   specialist_provider |-> p, summarizer_provider |-> p,
                   selected_router_model |-> m, selected_specialist_model |-> m,
                   selected_chat_model |-> m] :
                  p \in Providers, m \in {NULL, "llama3", "qwen-mlx"}}

\* ------------------------------------------------------------ App.jsx state
\* useState({type: 'Year', year: 2025, month: 11, ...}); month is 0-indexed.
DefaultFilters == [type |-> "Year", year |-> 2025, month |-> 11]

\* useState(null): rawData is <<>> before a load and <<rows>> after one; a
\* row is kept as <<Date.getFullYear(), Date.getMonth()>>.
NoData == <<>>

NoYearChange ==
  [done |-> FALSE, rawData |-> {}, prev |-> DefaultFilters, newYear |-> 2025,
   next |-> DefaultFilters]

\* categories.json is imported but is not among the sources: its contents
\* are an input. mapping lists the entries of CATEGORY_MAPPING in key
\* order, majors are the keys of CATEGORY_COLORS.
LowerKeyData ==
  [mapping |-> << <<"groceries", "Food">>, <<"rent", "Housing">> >>,
   majors |-> {"Food", "Housing", "Miscellaneous"}]
TitleKeyData ==
  [mapping |-> << <<"Groceries", "Food">>, <<"Rent", "Housing">> >>,
   majors |-> {"Food", "Housing", "Miscellaneous"}]
GroupKeyData ==
  [mapping |-> << <<"groceries", "Food">>, <<"food", "Food">>,
                  <<"rent", "Housing">>, <<"housing", "Housing">>,
                  <<"miscellaneous", "Miscellaneous">> >>,
   majors |-> {"Food", "Housing", "Miscellaneous"}]
CategoriesDatas == {LowerKeyData, TitleKeyData, GroupKeyData}

NoRow == [done |-> FALSE, cell |-> "", category |-> "", NewCategory |-> ""]
NoLookup == [done |-> FALSE, rawCategory |-> "", result |-> ""]

\* No filterData call yet: the caller's array before and after the call,
\* the filters passed and the array returned.
NoFilterCall ==
  [done |-> FALSE, data |-> <<>>, after |-> <<>>,
   filters |-> [type |-> "Year", year |-> 2025, month |-> 11,
                date |-> <<2025, 0, 1>>, startDate |-> <<2025, 0, 1>>,
                endDate |-> <<2025, 0, 1>>, includeRent |-> TRUE],
   result |-> <<>>]

\* No sheet processed yet: the rows of sheet_to_json and the rows resolved.
NoSheet == [done |-> FALSE, jsonData |-> <<>>, processedData |-> <<>>]

\* App as constructed, with no row processed yet.
AppInit ==
  /\ rawData = NoData
  /\ filters = DefaultFilters
  /\ yearChange = NoYearChange
  /\ categoriesData = LowerKeyData
  /\ row = NoRow
  /\ dashboardCategory = NoLookup
  /\ dateBounds = <<>>
  /\ effectRounds = 0
  /\ filtered = NoFilterCall
  /\ sheet = NoSheet


ChatInit ==
  /\ visible = FALSE
  /\ visibleRef = FALSE
  /\ messages = <<>>
  /\ unreadCount = 0
  /\ input = ""
  /\ isLoading = FALSE
  /\ isConnected = FALSE
  /\ ollamaConnected = FALSE
  /\ backendConnected = FALSE
  /\ connectionError = NULL
  /\ workflowStatus = <<>>
  /\ routerProvider = "ollama"
  /\ specialistProvider = "ollama"
  /\ summarizerProvider = "ollama"
  /\ mlxModels = <<>>
  /\ ollamaModels = <<>>
  /\ selectedRouterModel = ""
  /\ selectedCodeModel = ""
  /\ selectedChatModel = ""
  /\ showChoiceUI = FALSE
  /\ localStorage \in {FreshStorage} \cup SavedStorages
  /\ run = [r \in Runs |-> IdleRun]
  /\ init = [i \in Inits |-> IdleInit]
  /\ dropFlip = FALSE
  /\ pyodide = "none"
  /\ now = 0
  /\ options = DefaultOptions

Init == ChatInit /\ AppInit


\* ------------------------------------------------- effects of ChatInterface
SyncModel_Keep(provider, mlx, oll, selected) == selected

\* "Side effect to sync models when providers change": the model the effect
\* leaves selected for a stage, given the stage's provider and the two lists.
SyncModel(provider, mlx, oll, selected) ==
  LET models_available == IF provider = "mlx" THEN mlx ELSE oll
  IN IF Len(models_available) > 0 /\ selected \notin Range(models_available)
       THEN models_available[1]
       ELSE selected

\* if (selectedXModel) localStorage.setItem(key, selectedXModel)
PersistModel(stored, selected) == IF selected # "" THEN selected ELSE stored

\* ------------------------------------------------- initializeConnections
\* availableOllamaModels.find(pred) || availableOllamaModels[0] || availableMlxModels[0]
PreferredModel(availableOllamaModels, availableMlxModels, accepted) ==
  LET found == Find(availableOllamaModels, accepted)
  IN IF found # NULL THEN found
     ELSE IF Len(availableOllamaModels) > 0 THEN availableOllamaModels[1]
     ELSE availableMlxModels[1]

\* saved && allAvailable.includes(saved) ? saved : preferred
SavedOrPreferred(saved, availableOllamaModels, availableMlxModels, accepted) ==
  IF saved # NULL /\ saved \in Range(availableOllamaModels \o availableMlxModels)
    THEN saved
    ELSE PreferredModel(availableOllamaModels, availableMlxModels, accepted)

\* localStorage.getItem(key) || 'ollama'
SavedProvider(stored) == IF stored # NULL THEN stored ELSE "ollama"

\* The connection flags set from the two checks.
ConnectedFlags(ollamaOk, backendOk) ==
  [ollamaConnected |-> ollamaOk, backendConnected |-> backendOk,
   isConnected |-> (ollamaOk \/ backendOk)]

ListedModels_Unchecked(ok, listing) == listing

\* The lists set from the listing calls: a backend that failed its check
\* is not asked and gets the empty list.
ListedModels(ok, listing) == IF ok THEN listing ELSE <<>>

\* A free invocation record.
FreeInit == {i \in Inits : init[i].pc = "idle"}
InFlightInits == {i \in Inits : init[i].pc # "idle"}

\* setIsLoading(true), then the two connection checks are awaited.
InitStart(i) ==
  /\ init[i].pc = "idle"
  /\ i = CHOOSE j \in FreeInit : \A k \in FreeInit : j <= k
  /\ isLoading' = TRUE
  /\ init' = [j \in Inits |->
                IF j = i THEN [IdleInit EXCEPT !.pc = "check", !.alone = (InFlightInits = {})]
                ELSE IF init[j].pc # "idle" THEN [init[j] EXCEPT !.alone = FALSE]
                ELSE init[j]]

\* The chat becomes visible: visibleRef follows, the unread counter is
\* cleared and the visible effect calls initializeConnections.
OpenChat ==
  /\ ~visible
  /\ visible' = TRUE
  /\ visibleRef' = TRUE
  /\ unreadCount' = 0
  /\ \E i \in Inits : InitStart(i)
  /\ UNCHANGED <<appVars, messages, input, workflowStatus, connVars, configVars, pyodide, now, run, dropFlip>>

\* A Retry button: beside a backend shown offline, or in the empty state.
RetryConnection ==
  /\ visible
  /\ \/ ~ollamaConnected
     \/ ~backendConnected
     \/ (~isConnected /\ ~isLoading)
  /\ \E i \in Inits : InitStart(i)
  /\ UNCHANGED <<appVars, visible, visibleRef, chatVars, input, connVars, configVars, pyodide, now, run, dropFlip>>

\* The checks resolved with neither service reachable.
InitUnreachable(i) ==
  /\ init[i].pc = "check"
  /\ LET f == ConnectedFlags(FALSE, FALSE)
     IN /\ ollamaConnected' = f.ollamaConnected
        /\ backendConnected' = f.backendConnected
        /\ isConnected' = f.isConnected
  /\ connectionError' = ConnectErrorText
  /\ isLoading' = FALSE
  /\ init' = [init EXCEPT ![i] = IdleInit]
  /\ UNCHANGED <<appVars, visible, visibleRef, chatVars, input, configVars, pyodide, now, run, dropFlip>>

\* The checks resolved with at least one service reachable; the listing
\* calls are awaited next.
InitChecked(i, answers) ==
  /\ init[i].pc = "check"
  /\ \E ollamaOk, backendOk \in BOOLEAN :
       /\ <<ollamaOk, backendOk>> \in answers
       /\ ollamaOk \/ backendOk
       /\ LET f == ConnectedFlags(ollamaOk, backendOk)
          IN /\ ollamaConnected' = f.ollamaConnected
             /\ backendConnected' = f.backendConnected
             /\ isConnected' = f.isConnected
       /\ init' = [init EXCEPT ![i].pc = "list", ![i].ollamaOk = ollamaOk,
                               ![i].backendOk = backendOk]
  /\ connectionError' = NULL
  /\ UNCHANGED <<appVars, visible, visibleRef, chatVars, input, isLoading, configVars, pyodide, now, run, dropFlip>>

InitPyodideCalled_OnNeed(called) == called

\* await initPyodide(): one more call of it.
InitPyodideCalled(called) == IF called = "none" THEN "once" ELSE "again"

\* The listing calls resolved: lists, first-time setup or saved preferences,
\* the call of initPyodide, and the sync and persist effects of the render
\* that follows.
InitListed(i, ollamaListings, mlxListings) ==
  /\ init[i].pc = "list"
  /\ \E lo \in ollamaListings, lm \in mlxListings :
       LET availableOllamaModels == ListedModels(init[i].ollamaOk, lo)
           availableMlxModels == ListedModels(init[i].backendOk, lm)
           some == Len(availableOllamaModels) > 0 \/ Len(availableMlxModels) > 0
           hasSetup == localStorage.setup_done
           load == some /\ hasSetup
           rp == IF load THEN SavedProvider(localStorage.router_provider) ELSE routerProvider
           sp == IF load THEN SavedProvider(localStorage.specialist_provider) ELSE specialistProvider
           up == IF load THEN SavedProvider(localStorage.summarizer_provider) ELSE summarizerProvider
           rm == IF load
                   THEN SavedOrPreferred(localStorage.selected_router_model,
                          availableOllamaModels, availableMlxModels,
                          {m \in ModelNames : IncludesQwenOrLlama(m)})
                   ELSE selectedRouterModel
           cm == IF load
                   THEN SavedOrPreferred(localStorage.selected_specialist_model,
                          availableOllamaModels, availableMlxModels,
                          {m \in ModelNames : IncludesCoderOrLlama3(m)})
                   ELSE selectedCodeModel
           hm == IF load
                   THEN SavedOrPreferred(localStorage.selected_chat_model,
                          availableOllamaModels, availableMlxModels,
                          {m \in ModelNames : IncludesCoderOrLlama3(m)})
                   ELSE selectedChatModel
           rm2 == SyncModel(rp, availableMlxModels, availableOllamaModels, rm)
           cm2 == SyncModel(sp, availableMlxModels, availableOllamaModels, cm)
           hm2 == SyncModel(up, availableMlxModels, availableOllamaModels, hm)
       IN /\ ollamaModels' = availableOllamaModels
          /\ mlxModels' = availableMlxModels
          /\ showChoiceUI' = IF some /\ ~hasSetup THEN TRUE ELSE showChoiceUI
          /\ routerProvider' = rp
          /\ specialistProvider' = sp
          /\ summarizerProvider' = up
          /\ selectedRouterModel' = rm2
          /\ selectedCodeModel' = cm2
          /\ selectedChatModel' = hm2
          /\ localStorage' =
               [localStorage EXCEPT
                  !.selected_router_model = PersistModel(@, rm2),
                  !.selected_specialist_model = PersistModel(@, cm2),
                  !.selected_chat_model = PersistModel(@, hm2)]
          /\ pyodide' = InitPyodideCalled(pyodide)
          /\ init' = [init EXCEPT ![i].pc = "pyodide",
                         ![i].ollamaAnswer = IF init[i].ollamaOk THEN lo ELSE <<>>,
                         ![i].mlxAnswer = IF init[i].backendOk THEN lm ELSE <<>>]
  /\ UNCHANGED <<appVars, visible, visibleRef, chatVars, input, isLoading, connVars, run, dropFlip,
                 now, options>>

\* initPyodide settled (a rejection is caught and logged); finally.
InitFinished(i) ==
  /\ init[i].pc = "pyodide"
  /\ isLoading' = FALSE
  /\ init' = [init EXCEPT ![i] = IdleInit]
  /\ UNCHANGED <<appVars, visible, visibleRef, chatVars, input, connVars, configVars, pyodide, now, run, dropFlip>>

\* An awaited call rejected: catch, then finally. checkOllamaConnection and
\* listModels may reject; the backend check and listMLXModels catch their
\* errors, and listModels is called only when Ollama passed its check.
InitFailed(i) ==
  /\ \/ init[i].pc = "check"
     \/ init[i].pc = "list" /\ init[i].ollamaOk
  /\ isConnected' = FALSE
  /\ connectionError' = InitFailedText
  /\ isLoading' = FALSE
  /\ init' = [init EXCEPT ![i] = IdleInit]
  /\ UNCHANGED <<appVars, visible, visibleRef, chatVars, input, ollamaConnected, backendConnected,
                 configVars, pyodide, now, run, dropFlip>>


\* The chat is hidden (Minimize, Close, or the toggle of App.jsx); nothing
\* is done to the runs in flight.
CloseChat ==
  /\ visible
  /\ visible' = FALSE
  /\ visibleRef' = FALSE
  /\ UNCHANGED <<appVars, chatVars, input, isLoading, connVars, configVars, pyodide, now, run, init, dropFlip>>

\* ----------------------------------------------------------------- input
Inputs == {"", " ", "q"}

\* input.trim()
Trim(s) ==
  CASE s = " " -> ""
    [] s = " Groceries " -> "Groceries"
    [] s = "food " -> "food"
    [] OTHER -> s

\* disabled={!isConnected || isLoading} on the text box
InputEnabled == visible /\ isConnected /\ ~isLoading

SetInput ==
  /\ InputEnabled
  /\ \E v \in Inputs : v # input /\ input' = v
  /\ UNCHANGED <<appVars, visible, visibleRef, chatVars, isLoading, connVars, configVars, pyodide, now,
                 run, init, dropFlip>>

\* -------------------------------------------------------------- handleSend
UserMessage(r, content) ==
  [role |-> "user", content |-> content, isSystem |-> FALSE, isError |-> FALSE,
   fig |-> FALSE, run |-> r]

SystemNotice_AsError(r) ==
  [role |-> "assistant", content |-> BackendOfflineNotice, isSystem |-> TRUE,
   isError |-> TRUE, fig |-> FALSE, run |-> r]

SystemNotice(r) ==
  [role |-> "assistant", content |-> BackendOfflineNotice, isSystem |-> TRUE,
   isError |-> FALSE, fig |-> FALSE, run |-> r]

\* finalContent || (fig ? "I've generated a visualization for you." : "Analysis complete.")
FinalContent(finalContent, fig) ==
  IF finalContent # "" THEN finalContent
  ELSE IF fig THEN VisualizationAck ELSE AnalysisComplete

NewMessage(r, finalContent, fig) ==
  [role |-> "assistant", content |-> FinalContent(finalContent, fig),
   isSystem |-> FALSE, isError |-> FALSE, fig |-> fig, run |-> r]

ErrorContent_Generic(text) == "Error: something went wrong"

\* `Error: ${error.message}`
ErrorContent(text) == "Error: " \o text

ErrorMessage(r, text) ==
  [role |-> "assistant", content |-> ErrorContent(text), isSystem |-> FALSE,
   isError |-> TRUE, fig |-> FALSE, run |-> r]

NeedsSummary_AnyPath(backend, result) ==
  result # "" /\ result # "None" /\ ResultLength(result) < 500

\* !backend && result && result !== 'None' && result.length < 500
NeedsSummary(backend, result) ==
  ~backend /\ result # "" /\ result # "None" /\ ResultLength(result) < 500

UnreadAfterAnswer_Unchanged(count, ref) == count
UnreadAfterAnswer_Always(count, ref) == count + 1

\* if (!visibleRef.current) setUnreadCount(prev => prev + 1)
UnreadAfterAnswer(count, ref) == IF ~ref THEN count + 1 ELSE count

FinallyLoading_Stuck == TRUE
FinallyStatus_Kept(status) == status

\* finally: setIsLoading(false); setWorkflowStatus([])
FinallyLoading == FALSE
FinallyStatus(status) == <<>>

\* The status callback: [...prev, { ...status, timestamp: performance.now() }]
AppendStatus(prev, status, time) ==
  Append(prev, [stage |-> status.stage, run |-> status.run, timestamp |-> time])

\* if (!input.trim() || !selectedCodeModel) return
SendRefused == Trim(input) = "" \/ selectedCodeModel = ""

NextRun == {r \in Runs : run[r].pc = "idle" /\ \A q \in 1..(r - 1) : run[q].pc # "idle"}

\* Enter in the text box with a blank input or no specialist model: return.
HandleSendReturn ==
  /\ InputEnabled
  /\ SendRefused
  /\ dropFlip' = ~dropFlip
  /\ UNCHANGED <<appVars, visible, visibleRef, chatVars, input, isLoading, connVars,
                 configVars, pyodide, now, run, init>>

\* The state of the render whose handleSend is called: every later read of
\* the invocation is of these values.
Closure ==
  [routerProvider |-> routerProvider, specialistProvider |-> specialistProvider,
   summarizerProvider |-> summarizerProvider,
   selectedRouterModel |-> selectedRouterModel, selectedCodeModel |-> selectedCodeModel,
   selectedChatModel |-> selectedChatModel, options |-> options,
   messages |-> messages, input |-> input]

\* runPythonStream(null, data, {model, routerModel, chatModel, routerProvider,
\* specialistProvider, summarizerProvider, options}, callback)
StreamCall(c) ==
  [fn |-> "runPythonStream",
   providers |-> <<c.routerProvider, c.specialistProvider, c.summarizerProvider>>,
   models |-> <<c.selectedRouterModel, c.selectedCodeModel, c.selectedChatModel>>,
   options |-> c.options]

\* { role: 'system', content: systemPrompt }
SystemPrompt(r) ==
  [role |-> "system", content |-> "systemPrompt", isSystem |-> FALSE,
   isError |-> FALSE, fig |-> FALSE, run |-> r]

\* m => m.role !== 'system'
NotSystemRole(m) == m.role # "system"

\* [{role: 'system', ...}, ...messages.filter(m => m.role !== 'system'), userMessage]
\* with the messages of the render in which handleSend was called.
CodeConversation(r, c) ==
  <<SystemPrompt(r)>> \o SelectSeq(c.messages, NotSystemRole)
                     \o <<UserMessage(r, c.input)>>

\* chatWithOllama(selectedCodeModel, [...], false, options): Ollama, whatever
\* the specialist's provider is
CodeCall(r, c) ==
  [fn |-> "chatWithOllama", providers |-> <<"ollama">>,
   models |-> <<c.selectedCodeModel>>, options |-> c.options,
   conversation |-> CodeConversation(r, c)]

\* runPython(code, data)
PythonCall == [fn |-> "runPython", providers |-> <<>>, models |-> <<>>, options |-> <<>>]

\* chatWithOllama(selectedChatModel, [...], false, options): Ollama, whatever
\* the summarizer's provider is
SummaryCall(c) ==
  [fn |-> "chatWithOllama", providers |-> <<"ollama">>,
   models |-> <<c.selectedChatModel>>, options |-> c.options]

\* The synchronous head of handleSend, up to the await of runPythonStream.
HandleSend(r) ==
  /\ InputEnabled
  /\ ~SendRefused
  /\ r \in NextRun
  /\ messages' = Append(messages, UserMessage(r, input))
  /\ input' = ""
  /\ isLoading' = TRUE
  /\ run' = [run EXCEPT ![r].pc = "stream", ![r].closure = Closure,
                        ![r].calls = <<StreamCall(Closure)>>]
  /\ UNCHANGED <<appVars, visible, visibleRef, unreadCount, workflowStatus, connVars,
                 configVars, pyodide, now, init, dropFlip>>

\* The record of a run that has returned: what it computed and called stays
\* as history.
Ended(rec, text) == [rec EXCEPT !.pc = "done", !.failed = text, !.stage = 0]

\* The tail of the try block, from the final message on, and finally.
Complete(r, finalContent, fig, rec) ==
  /\ messages' = Append(messages, NewMessage(r, finalContent, fig))
  /\ unreadCount' = UnreadAfterAnswer(unreadCount, visibleRef)
  /\ isLoading' = FinallyLoading
  /\ workflowStatus' = FinallyStatus(workflowStatus)
  /\ run' = [run EXCEPT ![r] = Ended(rec, NULL)]

\* catch (error), and finally.
Catch(r, text) ==
  /\ messages' = Append(messages, ErrorMessage(r, text))
  /\ isLoading' = FinallyLoading
  /\ workflowStatus' = FinallyStatus(workflowStatus)
  /\ run' = [run EXCEPT ![r] = Ended(run[r], text)]
  /\ UNCHANGED unreadCount

\* runPythonStream calls the status callback with the next stage of the
\* remote pipeline; the remote service validates the invocation and runs
\* it when it enters the executing stage.
StreamStatus(r, ticks) ==
  /\ run[r].pc = "stream"
  /\ run[r].stage < Len(WORKFLOW_STAGES)
  /\ \E dt \in ticks : now' = now + dt
  /\ LET k == run[r].stage + 1
         remote == WORKFLOW_STAGES[k] = "executing"
     IN /\ workflowStatus' = AppendStatus(workflowStatus,
                                          [stage |-> WORKFLOW_STAGES[k], run |-> r], now')
        /\ run' = [run EXCEPT ![r].stage = k,
                              ![r].validated = @ \/ remote,
                              ![r].executed = @ \/ remote]
  /\ UNCHANGED <<appVars, visible, visibleRef, messages, unreadCount, input, isLoading,
                 connVars, configVars, pyodide, init, dropFlip>>

\* runPythonStream resolved with the remote result (backend set): the
\* summary condition, which a backend result does not meet, then the final
\* message and finally.
StreamResult(r, results) ==
  /\ run[r].pc = "stream"
  /\ run[r].stage >= StageIndex("executing")
  /\ \E res \in results :
       LET rec == [run[r] EXCEPT !.backend = TRUE, !.result = res[1], !.fig = res[2]]
       IN IF NeedsSummary(rec.backend, res[1])
            THEN /\ run' = [run EXCEPT ![r] = [rec EXCEPT !.pc = "summary",
                                                  !.calls = Append(@, SummaryCall(rec.closure))]]
                 /\ UNCHANGED <<chatVars, isLoading>>
            ELSE Complete(r, res[1], res[2], rec)
  /\ UNCHANGED <<appVars, visible, visibleRef, input, connVars, configVars, pyodide, now, init, dropFlip>>

\* runPythonStream resolved without a backend result: the notice, then the
\* code-generating call is awaited.
StreamNoBackend(r) ==
  /\ run[r].pc = "stream"
  /\ run[r].stage < StageIndex("executing")
  /\ messages' = Append(messages, SystemNotice(r))
  /\ run' = [run EXCEPT ![r].pc = "code", ![r].fellBack = TRUE,
                        ![r].calls = Append(@, CodeCall(r, run[r].closure))]
  /\ UNCHANGED <<appVars, visible, visibleRef, unreadCount, workflowStatus, input, isLoading,
                 connVars, configVars, pyodide, now, init, dropFlip>>

\* The code-generating call resolved: the reply is stripped of its fences
\* and handed to runPython as it is.
CodeGenerated(r) ==
  /\ run[r].pc = "code"
  /\ run' = [run EXCEPT ![r].pc = "python", ![r].executed = TRUE,
                        ![r].calls = Append(@, PythonCall)]
  /\ UNCHANGED <<appVars, visible, visibleRef, chatVars, input, isLoading, connVars,
                 configVars, pyodide, now, init, dropFlip>>

\* runPython resolved: the summary call is awaited, or the final message.
PythonResult(r, results) ==
  /\ run[r].pc = "python"
  /\ \E res \in results :
       IF NeedsSummary(run[r].backend, res[1])
         THEN /\ run' = [run EXCEPT ![r].pc = "summary", ![r].result = res[1],
                                    ![r].fig = res[2],
                                    ![r].calls = Append(@, SummaryCall(run[r].closure))]
              /\ UNCHANGED <<chatVars, isLoading>>
         ELSE Complete(r, res[1], res[2],
                       [run[r] EXCEPT !.result = res[1], !.fig = res[2]])
  /\ UNCHANGED <<appVars, visible, visibleRef, input, connVars, configVars, pyodide, now, init, dropFlip>>

\* The summary call resolved.
SummaryResult(r) ==
  /\ run[r].pc = "summary"
  /\ Complete(r, SummaryText, run[r].fig, run[r])
  /\ UNCHANGED <<appVars, visible, visibleRef, input, connVars, configVars, pyodide, now, init, dropFlip>>

\* An awaited call of the run rejected.
CallFailed(r) ==
  /\ run[r].pc \in {"stream", "code", "python", "summary"}
  /\ Catch(r, ErrorTexts[run[r].pc])
  /\ UNCHANGED <<appVars, visible, visibleRef, input, connVars, configVars, pyodide, now, init, dropFlip>>

\* ------------------------------------------------------------ specification
\* Answers of the two connection checks, as <<ollamaOk, backendOk>>.
AnyAnswer == BOOLEAN \X BOOLEAN
BothAnswer == {<<TRUE, TRUE>>}

\* The listings of a machine with both services installed.
FullOllama == {<<"mistral", "llama3">>}
FullMlx == {<<"qwen-mlx">>}

\* Results of a run, as <<result, chart present>>, that the run specifications
\* draw from: a chart without a value, and a compact value.
RunResults == {<<"", TRUE>>, <<"42", FALSE>>}

\* What performance.now() advances by between two readings: NoTick where the
\* clock is not looked at, Ticks where it is.
NoTick == {0}
Ticks == {0, 1}
AllResults == Results \X BOOLEAN

\* Connection handling and the admission of a request, from construction.
ConnNext ==
  \/ OpenChat
  \/ CloseChat
  \/ RetryConnection
  \/ SetInput
  \/ HandleSendReturn
  \/ \E i \in Inits : InitUnreachable(i)
  \/ \E i \in Inits : InitChecked(i, AnyAnswer)
  \/ \E i \in Inits : InitListed(i, OllamaListings, MlxListings)
  \/ \E i \in Inits : InitFinished(i)
  \/ \E i \in Inits : InitFailed(i)
  \/ \E r \in 1..MaxRuns : HandleSend(r)

ConnSpec == Init /\ [][ConnNext]_vars

\* The panel of a returning user, open and connected to both services.
RunInit ==
  /\ visible = TRUE
  /\ visibleRef = TRUE
  /\ messages = <<>>
  /\ unreadCount = 0
  /\ input = ""
  /\ isLoading = FALSE
  /\ isConnected = TRUE
  /\ ollamaConnected = TRUE
  /\ backendConnected = TRUE
  /\ connectionError = NULL
  /\ workflowStatus = <<>>
  /\ routerProvider = "ollama"
  /\ specialistProvider = "ollama"
  /\ summarizerProvider = "ollama"
  /\ mlxModels = <<"qwen-mlx">>
  /\ ollamaModels = <<"mistral", "llama3">>
  /\ selectedRouterModel = "llama3"
  /\ selectedCodeModel = "llama3"
  /\ selectedChatModel = "llama3"
  /\ showChoiceUI = FALSE
  /\ localStorage = [setup_done |-> TRUE, router_provider |-> "ollama",
                     specialist_provider |-> "ollama", summarizer_provider |-> "ollama",
                     selected_router_model |-> "llama3",
                     selected_specialist_model |-> "llama3",
                     selected_chat_model |-> "llama3"]
  /\ run = [r \in Runs |-> IdleRun]
  /\ init = [i \in Inits |-> IdleInit]
  /\ dropFlip = FALSE
  /\ pyodide = "once"
  /\ now = 0
  /\ options = DefaultOptions
  /\ AppInit

\* The steps of a run.
RunSteps(r) ==
  \/ HandleSend(r)
  \/ StreamStatus(r, NoTick)
  \/ StreamResult(r, RunResults)
  \/ StreamNoBackend(r)
  \/ CodeGenerated(r)
  \/ PythonResult(r, RunResults)
  \/ SummaryResult(r)
  \/ CallFailed(r)

\* What happens around the runs: the chat is hidden and shown again, the
\* question is typed, and the connections are initialized again (by the
\* visible effect: with both services connected no Retry button is shown).
Around ==
  \/ OpenChat
  \/ CloseChat
  \/ SetInput
  \/ \E i \in Inits : InitChecked(i, BothAnswer)
  \/ \E i \in Inits : InitListed(i, FullOllama, FullMlx)
  \/ \E i \in Inits : InitFinished(i)

RunNext ==
  \/ Around
  \/ \E r \in 1..MaxRuns : RunSteps(r)

RunSpec == RunInit /\ [][RunNext]_vars

\* The same with more handleSend invocations, so that runs overlap.
RaceNext ==
  \/ Around
  \/ \E r \in 1..MaxOverlap : RunSteps(r)

RaceSpec == RunInit /\ [][RaceNext]_vars

\* Overlapping runs served by the remote service, with the clock running.
RaceClockNext ==
  \/ Around
  \/ \E r \in 1..MaxOverlap : HandleSend(r)
  \/ \E r \in 1..MaxOverlap : StreamStatus(r, Ticks)
  \/ \E r \in 1..MaxOverlap : StreamResult(r, RunResults)
  \/ \E r \in 1..MaxOverlap : CallFailed(r)

RaceClockSpec == RunInit /\ [][RaceClockNext]_vars


\* The calls a run awaits settle: each is bounded by a timeout, after which
\* an inference call rejects and the streamed execution call resolves
\* without a backend result.
CallSettles(r) ==
  \/ StreamResult(r, AllResults)
  \/ StreamNoBackend(r)
  \/ CodeGenerated(r)
  \/ PythonResult(r, AllResults)
  \/ SummaryResult(r)
  \/ CallFailed(r)

\* Runs of the open panel, one after the other, over every kind of result.
LiveNext ==
  \/ SetInput
  \/ CloseChat
  \/ \E r \in 1..MaxRuns : HandleSend(r)
  \/ \E r \in 1..MaxRuns : StreamStatus(r, NoTick)
  \/ \E r \in 1..MaxRuns : CallSettles(r)

\* The same runs with the clock running, and without the assumption that
\* calls settle.
ResultNext ==
  \/ SetInput
  \/ CloseChat
  \/ \E r \in 1..MaxRuns : HandleSend(r)
  \/ \E r \in 1..MaxRuns : StreamStatus(r, Ticks)
  \/ \E r \in 1..MaxRuns : CallSettles(r)

ResultSpec == RunInit /\ [][ResultNext]_vars

LiveSpec ==
  /\ RunInit
  /\ [][LiveNext]_vars
  /\ \A r \in 1..MaxRuns : WF_vars(CallSettles(r))

\* ------------------------------------------------------------------ claims
InFlight(r) == run[r].pc \notin {"idle", "done"}
Ends(r) == InFlight(r) /\ run'[r].pc = "done"

MessagesOf(r, msgs) == {i \in 1..Len(msgs) : msgs[i].run = r}
Answers(r) ==
  {i \in MessagesOf(r, messages) :
     messages[i].role = "assistant" /\ ~messages[i].isSystem /\ ~messages[i].isError}
Errors(r) == {i \in MessagesOf(r, messages) : messages[i].isError}
Notices(r) == {i \in MessagesOf(r, messages) : messages[i].isSystem}
EventsOf(r, status) == {i \in 1..Len(status) : status[i].run = r}

C2_ExecutedOnlyIfValidated ==
  \A r \in Runs : run[r].executed => run[r].validated

\* The pipeline stage a run is in, as an index of WORKFLOW_STAGES: the
\* remote pipeline's while the stream is awaited, then specialist for the
\* code-generating call, executing for runPython, summarizing for the summary.
StageOf(r) ==
  CASE run[r].pc = "code" -> StageIndex("specialist")
    [] run[r].pc = "python" -> StageIndex("executing")
    [] run[r].pc = "summary" -> StageIndex("summarizing")
    [] OTHER -> run[r].stage

\* C3 as stated: the stage events of one run are delivered strictly forward,
\* and every stage the run has entered has delivered its one event.
C3_OneEventPerStageInOrder ==
  /\ \A i, j \in 1..Len(workflowStatus) :
       (i < j /\ workflowStatus[i].run = workflowStatus[j].run) =>
         StageIndex(workflowStatus[i].stage) < StageIndex(workflowStatus[j].stage)
  /\ \A r \in Runs : InFlight(r) => run[r].stage = StageOf(r)

\* C4 (as amended): hiding the chat abandons nothing. A run that ends while
\* the chat is hidden still appends its one terminal message, and when that
\* message is a final answer the unread counter goes up by one.
C4_HiddenRunStillRecorded ==
  [][\A r \in Runs :
       (~visible /\ Ends(r)) =>
         /\ Len(messages') = Len(messages) + 1
         /\ Last(messages').run = r
         /\ Last(messages').role = "assistant"
         /\ (~Last(messages').isError => unreadCount' = unreadCount + 1)]_vars

\* C4 witness: the chat is hidden, and a run has recorded its answer and
\* an unread notification.
C4_Witness ==
  \E r \in Runs : ~visible /\ run[r].pc = "done" /\ Answers(r) # {} /\ unreadCount = 1

\* C4 as stated: once the chat is hidden, the runs in flight take no further
\* step: no call is resumed or issued, no stage event is delivered, and no
\* message or unread notification is recorded.
C4_HiddenRunAbandoned ==
  [][~visible =>
       /\ run' = run
       /\ messages' = messages
       /\ Len(workflowStatus') <= Len(workflowStatus)
       /\ unreadCount' <= unreadCount]_vars

\* C5: a run that has not ended has appended no terminal message, a run that
\* has ended has appended exactly one (a final answer or an error, not
\* both); the step that appends it leaves the loading flag false and the
\* stage-event list empty.
C5_OneTerminalOutcome ==
  /\ [](\A r \in Runs :
          Cardinality(Answers(r) \cup Errors(r)) = IF run[r].pc = "done" THEN 1 ELSE 0)
  /\ [][\A r \in Runs : Ends(r) => (~isLoading' /\ workflowStatus' = <<>>)]_vars

\* C5 witness: a run that delivered stage events has ended.
C5_Witness ==
  \E r \in Runs :
    /\ run[r].pc = "done" /\ run[r].validated
    /\ Cardinality(Answers(r) \cup Errors(r)) = 1
    /\ ~isLoading /\ workflowStatus = <<>>

\* C6: a run in which an awaited call failed has ended there: its record
\* never changes again (no later call, no retry), and the conversation holds
\* exactly one error message of the run, made of the failure's own text, and
\* no final answer of the run.
C6_FailureEndsRun ==
  /\ [](\A r \in Runs :
          run[r].failed # NULL =>
            /\ run[r].pc = "done"
            /\ Cardinality(Errors(r)) = 1
            /\ \A i \in Errors(r) : messages[i].content = "Error: " \o run[r].failed
            /\ Answers(r) = {})
  /\ [][\A r \in Runs : run[r].failed # NULL => run'[r] = run[r]]_vars

\* C6 witness: a failed code-generating call has been reported.
C6_Witness ==
  \E r \in Runs :
    /\ run[r].failed = ErrorTexts.code
    /\ \E i \in Errors(r) : messages[i].content = "Error: code generation failed"

\* A stage whose selected provider is offline or that has no model selected.
ProviderOnline(p) == IF p = "mlx" THEN backendConnected ELSE ollamaConnected
StageUnavailable ==
  \/ selectedRouterModel = "" \/ ~ProviderOnline(routerProvider)
  \/ selectedCodeModel = "" \/ ~ProviderOnline(specialistProvider)
  \/ selectedChatModel = "" \/ ~ProviderOnline(summarizerProvider)

\* C7 as stated: a question sent while some stage has no reachable provider
\* or no model is answered with an error message, and no run is started.
C7_UnavailableStageRejected ==
  [][(/\ Trim(input) # ""
      /\ StageUnavailable
      /\ \/ dropFlip' # dropFlip
         \/ \E r \in Runs : run[r].pc = "idle" /\ run'[r].pc # "idle")
     => /\ run' = run
        /\ Len(messages') = Len(messages) + 1
        /\ Last(messages').isError]_vars

C9_RunsHaveOwnRecords ==
  /\ [](\A r \in Runs :
          InFlight(r) => \A i \in 1..Len(workflowStatus) : workflowStatus[i].run = r)
  /\ [][\A r, q \in Runs :
          (r # q /\ Ends(r) /\ InFlight(q)) =>
            /\ isLoading' = isLoading
            /\ EventsOf(q, workflowStatus') = EventsOf(q, workflowStatus)]_vars

ChartOnly(r) ==
  run[r].fig /\ (run[r].result = "" \/ run[r].result = "None"
                  \/ ResultLength(run[r].result) >= 500)

\* The calls of chatWithOllama a run made after its execution: summary calls.
SummaryCalls(r) ==
  {i \in 1..Len(run[r].calls) :
     /\ run[r].calls[i].fn = "chatWithOllama"
     /\ \E j \in 1..(i - 1) : run[r].calls[j].fn = "runPython"}

\* C11 as stated: a run that ended with a chart and no compact scalar value
\* made no summary call, and the text of its final message is the canned
\* acknowledgement.
C11_ChartOnlyAcknowledged ==
  \A r \in Runs :
    (run[r].pc = "done" /\ run[r].failed = NULL /\ ChartOnly(r)) =>
      /\ SummaryCalls(r) = {}
      /\ \A i \in Answers(r) : messages[i].content = VisualizationAck

\* C12: whether the remote service served a run decides where the summary
\* is made. A run makes a summary call only after it fell back to the
\* embedded path (which its "Backend offline" notice records); a run served
\* by the remote service makes no summary call, and its final message shows
\* the remote result text as it came (the default text when it is empty)
\* with the remote chart.
C12_SummaryOnlyOnEmbeddedPath ==
  \A r \in Runs :
    /\ run[r].fellBack <=> Notices(r) # {}
    /\ run[r].fellBack => ~run[r].backend
    /\ SummaryCalls(r) # {} => run[r].fellBack
    /\ (run[r].pc = "done" /\ run[r].failed = NULL /\ run[r].backend) =>
         /\ SummaryCalls(r) = {}
         /\ Cardinality(Answers(r)) = 1
         /\ \A i \in Answers(r) :
              /\ run[r].result # "" => messages[i].content = run[r].result
              /\ run[r].result = "" =>
                   messages[i].content \in {VisualizationAck, AnalysisComplete}
              /\ messages[i].fig = run[r].fig

\* C12 witness: a run served by the remote service has shown the remote
\* text "42", and made no summary call.
C12_Witness ==
  \E r \in Runs :
    /\ run[r].pc = "done" /\ run[r].backend /\ run[r].result = "42"
    /\ SummaryCalls(r) = {}
    /\ \E i \in Answers(r) : messages[i].content = "42"

\* An initialization goes from its listing calls to the await of initPyodide.
CallsInitPyodide(i) == init[i].pc = "list" /\ init'[i].pc = "pyodide"

C14_EventsAppendOnly ==
  /\ [](\A i, j \in 1..Len(workflowStatus) :
          i < j => workflowStatus[i].timestamp <= workflowStatus[j].timestamp)
  /\ [][\A r \in Runs :
          (InFlight(r) /\ run'[r].pc \notin {"idle", "done"}) =>
            /\ Len(workflowStatus') >= Len(workflowStatus)
            /\ \A i \in 1..Len(workflowStatus) : workflowStatus'[i] = workflowStatus[i]]_vars

\* ------------------------------------------------------ WorkflowIndicator
\* stageInfo[key]: the last listed event of the stage (forEach overwrites).
HasInfo(status, i) == \E j \in 1..Len(status) : status[j].stage = WORKFLOW_STAGES[i]
StageInfo(status, i) ==
  status[CHOOSE j \in 1..Len(status) :
           /\ status[j].stage = WORKFLOW_STAGES[i]
           /\ \A k \in (j + 1)..Len(status) : status[k].stage # WORKFLOW_STAGES[i]]

\* stages.find(s => index of s.stage > i): the first listed event of a later
\* stage, wherever it stands in the list.
HasNextInfo(status, i) == \E j \in 1..Len(status) : StageIndex(status[j].stage) > i
NextInfo(status, i) ==
  status[CHOOSE j \in 1..Len(status) :
           /\ StageIndex(status[j].stage) > i
           /\ \A k \in 1..(j - 1) : StageIndex(status[k].stage) <= i]

\* The stage of the latest event; 0 when there is none.
CurrentIndex(status) == IF status = <<>> THEN 0 ELSE StageIndex(Last(status).stage)

\* The duration shown for stage i, as <<d>>, or <<>> when none is shown.
\* Timestamps are in units of 100 ms, so that ((b - a) / 1000).toFixed(1)
\* is b - a tenths of a second. Only the active stage's duration is clamped.
Duration(status, i, clock) ==
  IF ~HasInfo(status, i) THEN <<>>
  ELSE IF HasNextInfo(status, i)
    THEN <<NextInfo(status, i).timestamp - StageInfo(status, i).timestamp>>
  ELSE IF i = CurrentIndex(status)
    THEN <<IF clock - StageInfo(status, i).timestamp < 0
             THEN 0 ELSE clock - StageInfo(status, i).timestamp>>
  ELSE <<>>

\* {isLoading && messages.length > 0 && <WorkflowIndicator .../>} in the panel
IndicatorShown == visible /\ isLoading /\ Len(messages) > 0

\* C15 as stated: whenever the indicator is shown, every stage that has an
\* event and is followed by an event of a later stage shows a duration, and
\* none of the durations shown is negative.
C15_DurationsNonNegative ==
  IndicatorShown =>
    \A i \in 1..Len(WORKFLOW_STAGES) :
      /\ (HasInfo(workflowStatus, i) /\ HasNextInfo(workflowStatus, i)) =>
           Len(Duration(workflowStatus, i, now)) = 1
      /\ \A d \in Range(Duration(workflowStatus, i, now)) : d >= 0

\* ---------------------------------------------------------------- settings
Stages == {"router", "specialist", "summarizer"}

\* A provider button of SettingsPanel or of the choice overlay (disabled for
\* a provider that is offline), with the sync and persist effects of the
\* render that follows.
SetProvider(stage, p) ==
  /\ visible \/ showChoiceUI
  /\ ProviderOnline(p)
  /\ p # (CASE stage = "router" -> routerProvider
            [] stage = "specialist" -> specialistProvider
            [] OTHER -> summarizerProvider)
  /\ LET rm == IF stage = "router"
                 THEN SyncModel(p, mlxModels, ollamaModels, selectedRouterModel)
                 ELSE selectedRouterModel
         cm == IF stage = "specialist"
                 THEN SyncModel(p, mlxModels, ollamaModels, selectedCodeModel)
                 ELSE selectedCodeModel
         hm == IF stage = "summarizer"
                 THEN SyncModel(p, mlxModels, ollamaModels, selectedChatModel)
                 ELSE selectedChatModel
     IN /\ routerProvider' = IF stage = "router" THEN p ELSE routerProvider
        /\ specialistProvider' = IF stage = "specialist" THEN p ELSE specialistProvider
        /\ summarizerProvider' = IF stage = "summarizer" THEN p ELSE summarizerProvider
        /\ selectedRouterModel' = rm
        /\ selectedCodeModel' = cm
        /\ selectedChatModel' = hm
        /\ localStorage' =
             [localStorage EXCEPT
                !.selected_router_model = PersistModel(@, rm),
                !.selected_specialist_model = PersistModel(@, cm),
                !.selected_chat_model = PersistModel(@, hm)]
  /\ UNCHANGED <<appVars, visible, visibleRef, chatVars, input, isLoading, connVars, mlxModels,
                 ollamaModels, showChoiceUI, options, run, init, dropFlip, pyodide, now>>

\* The options of a stage's model select: the models of the stage's
\* provider, none when that provider is offline.
ModelOptions(provider) ==
  IF provider = "mlx"
    THEN (IF backendConnected THEN mlxModels ELSE <<>>)
    ELSE (IF ollamaConnected THEN ollamaModels ELSE <<>>)

\* A model select of the status bar, with the persist effect.
SelectModel(stage, m) ==
  /\ visible /\ isConnected
  /\ m \in Range(ModelOptions(CASE stage = "router" -> routerProvider
                                [] stage = "specialist" -> specialistProvider
                                [] OTHER -> summarizerProvider))
  /\ m # (CASE stage = "router" -> selectedRouterModel
            [] stage = "specialist" -> selectedCodeModel
            [] OTHER -> selectedChatModel)
  /\ selectedRouterModel' = IF stage = "router" THEN m ELSE selectedRouterModel
  /\ selectedCodeModel' = IF stage = "specialist" THEN m ELSE selectedCodeModel
  /\ selectedChatModel' = IF stage = "summarizer" THEN m ELSE selectedChatModel
  /\ localStorage' =
       [localStorage EXCEPT
          !.selected_router_model = IF stage = "router" THEN m ELSE @,
          !.selected_specialist_model = IF stage = "specialist" THEN m ELSE @,
          !.selected_chat_model = IF stage = "summarizer" THEN m ELSE @]
  /\ UNCHANGED <<appVars, visible, visibleRef, chatVars, input, isLoading, connVars, mlxModels,
                 ollamaModels, routerProvider, specialistProvider, summarizerProvider,
                 showChoiceUI, options, run, init, dropFlip, pyodide, now>>

\* The sliders of SettingsPanel.
SetOptions ==
  /\ visible
  /\ \E o \in {DefaultOptions, OtherOptions} : o # options /\ options' = o
  /\ UNCHANGED <<appVars, visible, visibleRef, chatVars, input, isLoading, connVars, mlxModels,
                 ollamaModels, routerProvider, specialistProvider, summarizerProvider,
                 selectedRouterModel, selectedCodeModel, selectedChatModel,
                 showChoiceUI, localStorage, run, init, dropFlip, pyodide, now>>

\* Runs of the open panel while the settings are changed.
SettingsNext ==
  \/ SetInput
  \/ SetOptions
  \/ \E stage \in Stages, p \in Providers : SetProvider(stage, p)
  \/ \E stage \in Stages, m \in ModelNames : SelectModel(stage, m)
  \/ \E r \in 1..MaxRuns : HandleSend(r)
  \/ \E r \in 1..MaxRuns : StreamStatus(r, NoTick)
  \/ \E r \in 1..MaxRuns : StreamResult(r, RunResults)
  \/ \E r \in 1..MaxRuns : StreamNoBackend(r)
  \/ \E r \in 1..MaxRuns : CodeGenerated(r)
  \/ \E r \in 1..MaxRuns : PythonResult(r, RunResults)
  \/ \E r \in 1..MaxRuns : SummaryResult(r)
  \/ \E r \in 1..MaxRuns : CallFailed(r)

SettingsSpec == RunInit /\ [][SettingsNext]_vars

\* C16 as stated: every call of a run that reaches a model uses the
\* provider, the model and the sampling parameters that were selected for
\* its stage when the run started.
C16_CallsUseSelectionAtStart ==
  \A r \in Runs :
    \A k \in 1..Len(run[r].calls) :
      LET call == run[r].calls[k]
          at == run[r].closure
      IN CASE call.fn = "runPythonStream" ->
                /\ call.providers = <<at.routerProvider, at.specialistProvider,
                                      at.summarizerProvider>>
                /\ call.models = <<at.selectedRouterModel, at.selectedCodeModel,
                                   at.selectedChatModel>>
                /\ call.options = at.options
           [] call.fn = "chatWithOllama" /\ k \notin SummaryCalls(r) ->
                /\ call.providers = <<at.specialistProvider>>
                /\ call.models = <<at.selectedCodeModel>>
                /\ call.options = at.options
           [] call.fn = "chatWithOllama" /\ k \in SummaryCalls(r) ->
                /\ call.providers = <<at.summarizerProvider>>
                /\ call.models = <<at.selectedChatModel>>
                /\ call.options = at.options
           [] OTHER -> TRUE

\* ---------------------------------------------------------------- requests
BACKEND_URL_Remote == [host |-> "models.example.com", port |-> 443]

\* const BACKEND_URL = 'http://localhost:8000'
BACKEND_URL == [host |-> "localhost", port |-> 8000]

\* fetch('http://localhost:8000/models/mlx'), the backend check
BackendCheckUrl == [host |-> "localhost", port |-> 8000]

\* The host of the Ollama service and of the pipeline service, which
\* utils/ollama and utils/pythonRunner address: on the device.
OllamaHost == "localhost"
PipelineHost == "localhost"

IsLocalHost(host) == host \in {"localhost", "127.0.0.1", "[::1]"}

\* The requests an initialization has in flight.
InitRequests(i) ==
  CASE init[i].pc = "check" ->
         {[host |-> OllamaHost, kind |-> "check", carries |-> "nothing"],
          [host |-> BackendCheckUrl.host, kind |-> "check", carries |-> "nothing"]}
    [] init[i].pc = "list" ->
         (IF init[i].ollamaOk
            THEN {[host |-> OllamaHost, kind |-> "listing", carries |-> "nothing"]}
            ELSE {})
         \cup
         (IF init[i].backendOk
            THEN {[host |-> BACKEND_URL.host, kind |-> "listing", carries |-> "nothing"]}
            ELSE {})
    [] OTHER -> {}

\* The requests a run has issued: one per call that leaves the browser.
RunRequests(r) ==
  {[host |-> IF run[r].calls[k].fn = "runPythonStream" THEN PipelineHost ELSE OllamaHost,
    kind |-> run[r].calls[k].fn, carries |-> "question and data"] :
     k \in {j \in 1..Len(run[r].calls) : run[r].calls[j].fn # "runPython"}}

Requests ==
  UNION {InitRequests(i) : i \in Inits} \cup UNION {RunRequests(r) : r \in Runs}

ToLowerCase(s) ==
  CASE s = "Groceries" -> "groceries"
    [] s = " Groceries " -> " groceries "
    [] s = "Food" -> "food"
    [] s = "Rent" -> "rent"
    [] s = "Housing" -> "housing"
    [] s = "HOUSING" -> "housing"
    [] s = "Taxi" -> "taxi"
    [] s = "Unknown" -> "unknown"
    [] s = "Miscellaneous" -> "miscellaneous"
    [] OTHER -> s

\* The category cells of an uploaded sheet, "" standing for an empty cell.
\* All are plain ASCII, which normalize('NFC') leaves as it is.
Cells == {"", "groceries", "Groceries", " Groceries ", "food", "food ", "Food",
          "Rent", "Housing", "Taxi", "Miscellaneous"}

\* Object.entries(CATEGORY_MAPPING).find(([key]) => key.toLowerCase() === lowerRaw):
\* the indices of the matching entries; find takes the first.
MappingMatches(mapping, lowerRaw) ==
  {k \in 1..Len(mapping) : ToLowerCase(mapping[k][1]) = lowerRaw}

\* The category fields processExcelFile gives a row.
ProcessCategory(data, cell) ==
  LET rawCategory == Trim(IF cell = "" THEN "Unknown" ELSE cell)
      lowerRaw == ToLowerCase(rawCategory)
      found == MappingMatches(data.mapping, lowerRaw)
      first == CHOOSE k \in found : \A j \in found : k <= j
  IN [done |-> TRUE, cell |-> cell, category |-> rawCategory,
      NewCategory |-> IF found # {} THEN data.mapping[first][2] ELSE rawCategory]

\* CATEGORY_MAPPING[normalized]: the property read takes the key as written.
MappingLookup(mapping, key) ==
  LET found == {k \in 1..Len(mapping) : mapping[k][1] = key}
  IN IF found = {} THEN <<>> ELSE <<mapping[CHOOSE k \in found : TRUE][2]>>

getDashboardCategory(data, rawCategory) ==
  IF rawCategory = "" THEN "Miscellaneous"
  ELSE LET normalized == ToLowerCase(Trim(rawCategory))
           value == MappingLookup(data.mapping, normalized)
       IN IF value # <<>> THEN value[1] ELSE "Miscellaneous"

\* processExcelFile maps the category of one row of the sheet.
ProcessRow(cell) ==
  /\ row' = ProcessCategory(categoriesData, cell)
  /\ UNCHANGED <<chatAll, rawData, filters, yearChange, categoriesData, dashboardCategory, dateBounds, effectRounds, filtered, sheet>>

\* A call of getDashboardCategory.
DashboardCategory(rawCategory) ==
  /\ dashboardCategory' = [done |-> TRUE, rawCategory |-> rawCategory,
                           result |-> getDashboardCategory(categoriesData, rawCategory)]
  /\ UNCHANGED <<chatAll, rawData, filters, yearChange, categoriesData, row, dateBounds, effectRounds, filtered, sheet>>

\* The application as constructed, the chat panel closed, with any of the
\* category files.
CategoryInit ==
  /\ ChatInit
  /\ localStorage = FreshStorage
  /\ rawData = NoData
  /\ filters = DefaultFilters
  /\ yearChange = NoYearChange
  /\ categoriesData \in CategoriesDatas
  /\ row = NoRow
  /\ dashboardCategory = NoLookup
  /\ dateBounds = <<>>
  /\ effectRounds = 0
  /\ filtered = NoFilterCall
  /\ sheet = NoSheet

CategoryNext ==
  \/ \E cell \in Cells : ProcessRow(cell)
  \/ \E rawCategory \in Cells : DashboardCategory(rawCategory)

CategorySpec == CategoryInit /\ [][CategoryNext]_vars

\* The known categories are the ones the chat hands to the pipeline
\* (MAJOR_CATEGORIES and the keys of CATEGORY_MAPPING). The dashboard
\* categories a value stands for: the group of a key it equals after
\* trimming and case-folding, and a major category it so equals.
CanonicalOf(data, value) ==
  LET folded == ToLowerCase(Trim(value))
  IN {data.mapping[k][2] : k \in MappingMatches(data.mapping, folded)}
       \cup {m \in data.majors : ToLowerCase(m) = folded}

C19_OneRunInFlight ==
  /\ Cardinality({r \in Runs : InFlight(r)}) <= 1
  /\ \A r \in Runs : InFlight(r) => (isLoading /\ ~InputEnabled)

\* ----------------------------------------------------- App.jsx: the filters
\* The years and months (0-indexed) of the rows of a loaded sheet.
Years == {2024, 2025}
MonthsOfYear == {0, 5, 11}
Datasets == SUBSET (Years \X MonthsOfYear)
FilterTypes == {"Year", "Month", "Custom Range"}

\* Math.max(...values) of a non-empty collection.
MathMax(values) == CHOOSE m \in values : \A n \in values : n <= m

\* rows.filter(d => d.Date.getFullYear() === year).map(d => d.Date.getMonth())
MonthsIn(rows, year) == {d[2] : d \in {e \in rows : e[1] = year}}

\* useMemo: the years of rawData; availableYears[0] is the latest.
availableYears(data) == IF data = NoData THEN {} ELSE {d[1] : d \in data[1]}

\* useMemo: the months of the selected year.
availableMonths(data, f) == IF data = NoData THEN {} ELSE MonthsIn(data[1], f.year)

YearChanged_KeepMonth(rows, prev, newYear) == [prev EXCEPT !.year = newYear]

\* The updater handleYearChange passes to setFilters.
YearChanged(rows, prev, newYear) ==
  LET monthsInNewYear == MonthsIn(rows, newYear)
      nextFilters == [prev EXCEPT !.year = newYear]
  IN IF /\ prev.type = "Month"
        /\ monthsInNewYear # {}
        /\ prev.month \notin monthsInNewYear
     THEN [nextFilters EXCEPT !.month = MathMax(monthsInNewYear)]
     ELSE nextFilters

EffectsOnce_MonthOnly(data, f) ==
  LET months == IF data = NoData THEN {} ELSE MonthsIn(data[1], f.year)
  IN IF f.type = "Month" /\ months # {} /\ f.month \notin months
     THEN [f EXCEPT !.month = MathMax(months)]
     ELSE f

\* The two safeguard effects after one render: both read the rendered
\* filters and queue an updater.
EffectsOnce(data, f) ==
  LET months == availableMonths(data, f)
      years == availableYears(data)
      monthFixed == IF f.type = "Month" /\ months # {} /\ f.month \notin months
                    THEN [f EXCEPT !.month = MathMax(months)]
                    ELSE f
  IN IF years # {} /\ f.year \notin years
     THEN [monthFixed EXCEPT !.year = MathMax(years)]
     ELSE monthFixed

\* The filters once the effects have nothing left to correct: the second
\* round sees a valid year, the third changes nothing.
Settled(data, f) == EffectsOnce(data, EffectsOnce(data, EffectsOnce(data, f)))

\* Math.min(...values) of a non-empty collection.
MathMin(values) == CHOOSE m \in values : \A n \in values : m <= n

\* Date.getTime() of a row, in months; a row keeps year and month only.
GetTime(d) == d[1] * 12 + d[2]

\* format(new Date(time), 'yyyy-MM-dd'), as <<year, month>>.
Format(time) == <<time \div 12, time % 12>>

safeMin_Latest(arr) == CHOOSE m \in arr : \A n \in arr : n <= m

\* safeMin and safeMax of a non-empty array: the reduce keeps the least,
\* respectively the greatest, value.
safeMin(arr) == CHOOSE m \in arr : \A n \in arr : m <= n
safeMax(arr) == CHOOSE m \in arr : \A n \in arr : n <= m

\* handleFileUpload, from the resolution of processExcelFile on.
HandleFileUpload(rows) ==
  /\ rawData = NoData
  /\ rawData' = <<rows>>
  /\ dateBounds' = IF rows # {}
                   THEN LET dates == {GetTime(d) : d \in rows}
                        IN <<[min |-> Format(safeMin(dates)),
                              max |-> Format(safeMax(dates))]>>
                   ELSE dateBounds
  /\ filters' = Settled(rawData',
                  IF rows # {}
                  THEN LET latestYear == MathMax({d[1] : d \in rows})
                       IN [filters EXCEPT !.year = latestYear,
                                          !.month = MathMax(MonthsIn(rows, latestYear))]
                  ELSE filters)
  /\ UNCHANGED <<chatAll, yearChange, categoriesData, row, dashboardCategory, effectRounds, filtered, sheet>>

\* handleUseDemo: the generated rows, and the year of the clock.
HandleUseDemo(rows, currentYear) ==
  /\ rawData = NoData
  /\ rawData' = <<rows>>
  /\ dateBounds' = IF rows # {}
                   THEN LET dates == {GetTime(d) : d \in rows}
                        IN <<[min |-> Format(MathMin(dates)),
                              max |-> Format(MathMax(dates))]>>
                   ELSE dateBounds
  /\ filters' = Settled(rawData', [filters EXCEPT !.year = currentYear])
  /\ UNCHANGED <<chatAll, yearChange, categoriesData, row, dashboardCategory, effectRounds, filtered, sheet>>

\* "Upload New File": setRawData(null).
ResetData ==
  /\ rawData # NoData
  /\ rawData' = NoData
  /\ filters' = Settled(rawData', filters)
  /\ yearChange' = NoYearChange
  /\ UNCHANGED <<chatAll, categoriesData, row, dashboardCategory, dateBounds, effectRounds, filtered, sheet>>

\* One of the three view buttons.
SetType(type) ==
  /\ rawData # NoData
  /\ filters' = Settled(rawData, [filters EXCEPT !.type = type])
  /\ UNCHANGED <<chatAll, rawData, yearChange, categoriesData, row, dashboardCategory, dateBounds, effectRounds, filtered, sheet>>

\* The month select, shown in Month view with the months of the year.
SetMonth(m) ==
  /\ rawData # NoData
  /\ filters.type = "Month"
  /\ m \in availableMonths(rawData, filters)
  /\ filters' = Settled(rawData, [filters EXCEPT !.month = m])
  /\ UNCHANGED <<chatAll, rawData, yearChange, categoriesData, row, dashboardCategory, dateBounds, effectRounds, filtered, sheet>>

\* The year select, shown in Year and Month view with the years of the data.
HandleYearChange(newYear) ==
  /\ rawData # NoData
  /\ filters.type \in {"Year", "Month"}
  /\ newYear \in availableYears(rawData)
  /\ LET next == YearChanged(rawData[1], filters, newYear)
     IN /\ filters' = Settled(rawData, next)
        /\ yearChange' = [done |-> TRUE, rawData |-> rawData[1], prev |-> filters,
                          newYear |-> newYear, next |-> next]
  /\ UNCHANGED <<chatAll, rawData, categoriesData, row, dashboardCategory, dateBounds, effectRounds, filtered, sheet>>

\* The application as constructed, the chat panel closed.
FilterInit ==
  /\ ChatInit
  /\ localStorage = FreshStorage
  /\ AppInit

FilterNext ==
  \/ \E rows \in Datasets : HandleFileUpload(rows)
  \/ \E rows \in Datasets, currentYear \in Years : HandleUseDemo(rows, currentYear)
  \/ ResetData
  \/ \E type \in FilterTypes : SetType(type)
  \/ \E m \in MonthsOfYear : SetMonth(m)
  \/ \E newYear \in Years : HandleYearChange(newYear)

FilterSpec == FilterInit /\ [][FilterNext]_vars

\* C20: in Month view, when the newly selected year has data, the filter
\* state handleYearChange sets has the new year together with a month that
\* has data in that year: the previous month if it has data there, otherwise
\* the latest month with data.
C20_YearChangeAtomic ==
  LET months == MonthsIn(yearChange.rawData, yearChange.newYear)
  IN (yearChange.done /\ yearChange.prev.type = "Month" /\ months # {}) =>
       /\ yearChange.next.type = "Month"
       /\ yearChange.next.year = yearChange.newYear
       /\ yearChange.next.month \in months
       /\ yearChange.next.month = IF yearChange.prev.month \in months
                                  THEN yearChange.prev.month
                                  ELSE MathMax(months)

\* C20 witness: a year change in Month view to a year without the month
\* that was selected, which set the latest month of the new year.
C20_Witness ==
  LET months == MonthsIn(yearChange.rawData, yearChange.newYear)
  IN /\ yearChange.done /\ yearChange.prev.type = "Month"
     /\ months # {} /\ yearChange.prev.month \notin months
     /\ yearChange.prev.year # yearChange.newYear
     /\ yearChange.next.year = yearChange.newYear
     /\ yearChange.next.month = MathMax(months)

\* ------------------------------------------- the safeguard effects, stepwise
\* Filter states a render may start from: any view, a year and a month with
\* or without rows.
AnyFilters ==
  [type : FilterTypes, year : Years \cup {2026}, month : MonthsOfYear \cup {3}]

\* A render whose safeguard effects queue an update: both updaters run and
\* the component renders again.
RunEffects ==
  /\ EffectsOnce(rawData, filters) # filters
  /\ filters' = EffectsOnce(rawData, filters)
  /\ effectRounds' = effectRounds + 1
  /\ UNCHANGED <<chatAll, rawData, yearChange, categoriesData, row,
                 dashboardCategory, dateBounds, filtered, sheet>>

\* Any non-empty dataset loaded, with any filter state.
EffectInit ==
  /\ ChatInit
  /\ localStorage = FreshStorage
  /\ rawData \in {<<rows>> : rows \in Datasets \ {{}}}
  /\ filters \in AnyFilters
  /\ yearChange = NoYearChange
  /\ categoriesData = LowerKeyData
  /\ row = NoRow
  /\ dashboardCategory = NoLookup
  /\ dateBounds = <<>>
  /\ effectRounds = 0
  /\ filtered = NoFilterCall
  /\ sheet = NoSheet

EffectNext == RunEffects

EffectSpec == EffectInit /\ [][EffectNext]_vars

\* The safeguard effects have nothing left to correct.
EffectsSettled == EffectsOnce(rawData, filters) = filters

\* C21: from any filter state over a non-empty dataset the auto-correct
\* effects update the filters at most twice, and once they update nothing
\* more the year is a year of the data and, in Month view, the month is a
\* month with data in that year.
C21_EffectsReachValidFixedPoint ==
  /\ effectRounds <= 2
  /\ EffectsSettled =>
       /\ filters.year \in availableYears(rawData)
       /\ filters.type = "Month" => filters.month \in availableMonths(rawData, filters)

\* C21 witness: the effects corrected the year, then the month, and settled
\* in Month view on a year and month of the data.
C21_Witness ==
  /\ effectRounds = 2 /\ EffectsSettled
  /\ rawData # NoData /\ rawData[1] # {}
  /\ filters.type = "Month"
  /\ filters.year \in availableYears(rawData)
  /\ filters.month \in availableMonths(rawData, filters)

\* C27: whenever a non-empty dataset is loaded, by however many uploads and
\* demo loads, the date bounds are the earliest and the latest date of that
\* dataset: min is not later than max and both are dates of loaded rows.
C27_DateBoundsOfLoadedData ==
  (rawData # NoData /\ rawData[1] # {}) =>
    /\ dateBounds # <<>>
    /\ dateBounds[1].min \in rawData[1]
    /\ dateBounds[1].max \in rawData[1]
    /\ \A d \in rawData[1] :
         /\ GetTime(dateBounds[1].min) <= GetTime(d)
         /\ GetTime(d) <= GetTime(dateBounds[1].max)

\* C27 witness: a dataset spanning more than one date is loaded and the
\* bounds are its first and last date.
C27_Witness ==
  /\ rawData # NoData /\ Cardinality(rawData[1]) >= 2
  /\ dateBounds = <<[min |-> <<2024, 5>>, max |-> <<2025, 0>>]>>
  /\ yearChange.done = FALSE /\ filters.type = "Month"

\* ------------------------------------------------------- first-time setup
\* "Start Analyzing" of the choice overlay: the three providers are saved
\* and the overlay closes.
StartAnalyzing ==
  /\ showChoiceUI
  /\ showChoiceUI' = FALSE
  /\ localStorage' = [localStorage EXCEPT !.setup_done = TRUE,
                                          !.router_provider = routerProvider,
                                          !.specialist_provider = specialistProvider,
                                          !.summarizer_provider = summarizerProvider]
  /\ UNCHANGED <<appVars, visible, visibleRef, chatVars, input, isLoading, connVars,
                 mlxModels, ollamaModels, routerProvider, specialistProvider,
                 summarizerProvider, selectedRouterModel, selectedCodeModel,
                 selectedChatModel, options, run, init, dropFlip, pyodide, now>>

\* Connecting, first-time setup and the selectors of the open panel, with
\* no run; a further initialization starts from a Retry button. The
\* selectors of the summarizer are those of the specialist under another
\* name and are left out.
SelectorStages == {"router", "specialist"}

SetupNext ==
  \/ OpenChat
  \/ RetryConnection
  \/ StartAnalyzing
  \/ \E stage \in SelectorStages, p \in Providers : SetProvider(stage, p)
  \/ \E stage \in SelectorStages, m \in ModelNames : SelectModel(stage, m)
  \/ \E i \in Inits : InitUnreachable(i)
  \/ \E i \in Inits : InitChecked(i, AnyAnswer)
  \/ \E i \in Inits : InitListed(i, OllamaListings, MlxListings)
  \/ \E i \in Inits : InitFinished(i)
  \/ \E i \in Inits : InitFailed(i)

SetupSpec == Init /\ [][SetupNext]_vars

\* The provider and the model selected for a stage.
StageProvider(stage) ==
  CASE stage = "router" -> routerProvider
    [] stage = "specialist" -> specialistProvider
    [] OTHER -> summarizerProvider
StageModel(stage) ==
  CASE stage = "router" -> selectedRouterModel
    [] stage = "specialist" -> selectedCodeModel
    [] OTHER -> selectedChatModel

\* C22: for each stage, once the sync effects have settled, if the model
\* list of the stage's provider is non-empty then the stage's selected
\* model is a member of that list.
C22_SelectedModelOfProvider ==
  \A stage \in Stages :
    LET models_available == IF StageProvider(stage) = "mlx" THEN mlxModels
                            ELSE ollamaModels
    IN Len(models_available) > 0 => StageModel(stage) \in Range(models_available)

\* C22 witness: preferences saved with the MLX provider and an Ollama model
\* were loaded with both services listed, and the router is on the MLX model.
C22_Witness ==
  /\ \A i \in Inits : init[i].pc = "idle"
  /\ localStorage.router_provider = "mlx"
  /\ routerProvider = "mlx" /\ selectedRouterModel = "qwen-mlx"
  /\ ollamaModels = <<"mistral", "llama3">> /\ mlxModels = <<"qwen-mlx">>
  /\ ~showChoiceUI

\* C23: after the initializations have returned, whenever at least one
\* backend is connected the provider selected for each stage is a connected
\* backend.
C23_StagesOnConnectedProviders ==
  ((\A i \in Inits : init[i].pc = "idle") /\ (ollamaConnected \/ backendConnected))
    => \A stage \in Stages : ProviderOnline(StageProvider(stage))

\* A run ends with its final answer (not with an error message).
EndsWithAnswer(r) == Ends(r) /\ run'[r].failed = NULL

\* C24: the unread counter is 0 whenever the chat is visible; a run that
\* appends its final answer adds exactly one to it when the chat is hidden
\* at that moment and nothing when it is visible, wherever the chat was
\* when the question was sent; and nothing else changes the counter but
\* the chat becoming visible, which clears it.
C24_UnreadCountsHiddenAnswers ==
  /\ [](visible => unreadCount = 0)
  /\ [][\A r \in Runs :
          EndsWithAnswer(r) =>
            unreadCount' = IF visible THEN unreadCount ELSE unreadCount + 1]_vars
  /\ [][unreadCount' # unreadCount =>
          \/ \E r \in Runs : EndsWithAnswer(r) /\ ~visible
          \/ ~visible /\ visible' /\ unreadCount' = 0]_vars

\* C24 witness: a question was sent from the visible chat, the chat was
\* hidden, shown and hidden again, and the answer that arrived then is
\* counted as unread.
C24_Witness ==
  /\ ~visible /\ unreadCount = 1 /\ pyodide = "again"
  /\ run[1].pc = "done" /\ Answers(1) # {}
  /\ \A i \in Inits : init[i].pc = "idle"

\* The code-generating calls of a run: the calls that carry a conversation.
CodeCalls(r) ==
  {i \in 1..Len(run[r].calls) : "conversation" \in DOMAIN run[r].calls[i]}

\* C25 as stated: the conversation sent to the code-generating model holds
\* the question of the run exactly once, as its last message, and no earlier
\* message that is a system notice or an error notice.
C25_CodeConversationClean ==
  \A r \in Runs : \A i \in CodeCalls(r) :
    LET conversation == run[r].calls[i].conversation
        n == Len(conversation)
    IN /\ conversation[n] = UserMessage(r, run[r].closure.input)
       /\ \A k \in 1..(n - 1) :
            /\ conversation[k] # conversation[n]
            /\ ~conversation[k].isSystem
            /\ ~conversation[k].isError

\* ------------------------------------------- WorkflowIndicator: the rows
IsCompleted_Upto(status, i) == i <= CurrentIndex(status)

\* isCompleted, isActive, isPending of row i.
IsCompleted(status, i) == i < CurrentIndex(status)
IsActive(status, i) == i = CurrentIndex(status)
IsPending(status, i) == i > CurrentIndex(status)

\* if (stage.key === 'summarizing' && isPending) return null
RowShown(status, i) == ~(WORKFLOW_STAGES[i] = "summarizing" /\ IsPending(status, i))

\* {currentIndex < 0 && ... initializing...}
InitializingShown(status) == CurrentIndex(status) < 1

\* C26: for the list of stage events received, the indicator marks as
\* completed exactly the stages before the stage of the most recent event in
\* the order router, specialist, executing, summarizing, marks exactly that
\* stage as active, shows the summarizing row only once that stage is
\* reached, and shows 'initializing' when no event has been received.
C26_IndicatorFollowsLatestEvent ==
  IF workflowStatus = <<>>
    THEN /\ InitializingShown(workflowStatus)
         /\ \A i \in 1..Len(WORKFLOW_STAGES) :
              /\ ~IsCompleted(workflowStatus, i) /\ ~IsActive(workflowStatus, i)
              /\ RowShown(workflowStatus, i) <=> WORKFLOW_STAGES[i] # "summarizing"
    ELSE LET latest == Last(workflowStatus).stage
         IN /\ ~InitializingShown(workflowStatus)
            /\ \A i \in 1..Len(WORKFLOW_STAGES) :
                 /\ IsCompleted(workflowStatus, i)
                      <=> \E j \in (i + 1)..Len(WORKFLOW_STAGES) : WORKFLOW_STAGES[j] = latest
                 /\ IsActive(workflowStatus, i) <=> WORKFLOW_STAGES[i] = latest
                 /\ RowShown(workflowStatus, i)
                      <=> (WORKFLOW_STAGES[i] # "summarizing" \/ latest = "summarizing")

\* C26 witness: the indicator is shown while a run's latest event is of the
\* summarizing stage: three rows completed, the fourth shown and active.
C26_Witness ==
  /\ IndicatorShown
  /\ Len(workflowStatus) = 4 /\ Last(workflowStatus).stage = "summarizing"
  /\ \A i \in 1..3 : IsCompleted(workflowStatus, i)
  /\ IsActive(workflowStatus, 4) /\ RowShown(workflowStatus, 4)

\* ---------------------------------------------------------------- filterData
\* Rows as filterData reads them: Category and Date, a date being
\* <<year, month (0-indexed), day>>. Category "" is that of a row whose
\* category cell holds only blanks (trimmed to the empty string).
RowCategories == {"housing", "HOUSING", "food", ""}
RowDates == {<<2024, 11, 31>>, <<2025, 0, 1>>, <<2025, 0, 15>>}
DataRows == [Category : RowCategories, Date : RowDates]
MaxRows == 2
DataArrays == UNION {[1..n -> DataRows] : n \in 0..MaxRows}

\* a <= b for dates.
DateLE(a, b) ==
  \/ a[1] < b[1]
  \/ a[1] = b[1] /\ a[2] < b[2]
  \/ a[1] = b[1] /\ a[2] = b[2] /\ a[3] <= b[3]

\* The filters filterData is called with; "All" stands for any type other
\* than the four it tests. Intervals are given with start <= end.
FilterArgs ==
  {f \in [type : {"Year", "Month", "Day", "Custom Range", "All"},
          year : {2025}, month : {0, 11}, date : {<<2025, 0, 1>>},
          startDate : {<<2024, 11, 31>>, <<2025, 0, 1>>},
          endDate : {<<2025, 0, 1>>},
          includeRent : BOOLEAN] : DateLE(f.startDate, f.endDate)}

\* row.Category && row.Category.toLowerCase() !== 'housing'
RentKept(r) == r.Category # "" /\ ToLowerCase(r.Category) # "housing"

\* The date test of filterData for one row.
DateKept(r, f) ==
  CASE f.type = "Year" -> r.Date[1] = f.year
    [] f.type = "Month" -> r.Date[1] = f.year /\ r.Date[2] = f.month
    [] f.type = "Day" -> r.Date = f.date
    [] f.type = "Custom Range" -> DateLE(f.startDate, r.Date) /\ DateLE(r.Date, f.endDate)
    [] OTHER -> TRUE

\* filterData(data, filters): the array it returns; data itself is copied
\* ([...data]) and only filtered copies are made after that.
filterData(data, f) ==
  LET Rent(r) == f.includeRent \/ RentKept(r)
      Dated(r) == DateKept(r, f)
  IN SelectSeq(SelectSeq(data, Rent), Dated)

\* A call of filterData (the filteredData memo of App.jsx); the history
\* keeps one call.
FilterCall(data, f) ==
  /\ ~filtered.done
  /\ filtered' = [done |-> TRUE, data |-> data, after |-> data, filters |-> f,
                  result |-> filterData(data, f)]
  /\ UNCHANGED <<chatAll, rawData, filters, yearChange, categoriesData, row,
                 dashboardCategory, dateBounds, effectRounds, sheet>>

FilterDataNext == \E data \in DataArrays, f \in FilterArgs : FilterCall(data, f)

FilterDataSpec == FilterInit /\ [][FilterDataNext]_vars

\* C28 as stated: filterData leaves the caller's array as it was, and
\* returns, in the order of the input, exactly the rows that pass the rent
\* rule (with includeRent false, the rows whose Category is 'housing' in any
\* letter case are excluded) and the date rule of the selected type.
C28_FilterDataExactSublist ==
  filtered.done =>
    LET f == filtered.filters
        Passes(r) == /\ f.includeRent \/ ToLowerCase(r.Category) # "housing"
                     /\ DateKept(r, f)
    IN /\ filtered.after = filtered.data
       /\ filtered.result = SelectSeq(filtered.data, Passes)

\* ---------------------------------------------------------- processExcelFile
\* A cell of the sheet is the text sheet_to_json gives with raw: false, as
\* a sequence of characters; <<>> is a cell that is empty or absent.
Chars(a, b, c, d, e) == SelectSeq(<<a, b, c, d, e>>, LAMBDA ch : ch # "")
ExpenseCells ==
  {Chars("1", "2", "", "", ""), Chars("0", "", "", "", ""),
   Chars("-", "5", "", "", ""), Chars("a", "b", "c", "", ""),
   Chars("1", "2", "a", "b", "c"), Chars("1", ",", "2", "3", "4")}
LowerExpenseCells == {<<>>, Chars("7", "", "", "", ""), Chars("a", "b", "c", "", "")}
DateCells == {"2025-01-01", "2025-02-01", "n/a", ""}

\* The rows of sheet_to_json: the Date column and the Expense and expense
\* columns; the lower-case column is filled only where Expense is empty.
SheetRows ==
  [Date : DateCells, Expense : ExpenseCells, expense : {<<>>}]
    \cup [Date : DateCells, Expense : {<<>>}, expense : LowerExpenseCells]
Sheets == UNION {[1..n -> SheetRows] : n \in 0..MaxRows}

\* new Date(cell).getTime(): <<time>>, or <<>> for NaN (Invalid Date); the
\* Date.parse fallback parses the same text and gives the same.
NewDate(cell) ==
  CASE cell = "2025-01-01" -> <<GetTime(<<2025, 0>>)>>
    [] cell = "2025-02-01" -> <<GetTime(<<2025, 1>>)>>
    [] OTHER -> <<>>

DigitValue(ch) ==
  CASE ch = "0" -> 0 [] ch = "1" -> 1 [] ch = "2" -> 2 [] ch = "3" -> 3
    [] ch = "4" -> 4 [] ch = "5" -> 5 [] ch = "6" -> 6 [] ch = "7" -> 7
    [] ch = "8" -> 8 [] ch = "9" -> 9
IsDigit(ch) == ch \in {"0", "1", "2", "3", "4", "5", "6", "7", "8", "9"}

\* The number of digits at the head of s.
RECURSIVE DigitPrefix(_)
DigitPrefix(s) ==
  IF s # <<>> /\ IsDigit(Head(s)) THEN 1 + DigitPrefix(Tail(s)) ELSE 0

\* The value of a run of digits.
RECURSIVE DigitsValue(_)
DigitsValue(s) ==
  IF s = <<>> THEN 0
  ELSE 10 * DigitsValue(SubSeq(s, 1, Len(s) - 1)) + DigitValue(s[Len(s)])

\* parseFloat(text): an optional sign, then the longest run of digits; what
\* follows the digits is ignored, and no digit at all gives NaN, <<>>.
\* (Cells with a decimal point or an exponent are not among ExpenseCells.)
parseFloat(text) ==
  LET signed == text # <<>> /\ Head(text) \in {"-", "+"}
      rest == IF signed THEN Tail(text) ELSE text
      n == DigitPrefix(rest)
  IN IF n = 0 THEN <<>>
     ELSE <<(IF Head(text) = "-" THEN -1 ELSE 1) * DigitsValue(SubSeq(rest, 1, n))>>

\* row.Expense || row.expense || 0, as the text parseFloat reads.
rawExpense(r) ==
  IF r.Expense # <<>> THEN r.Expense
  ELSE IF r.expense # <<>> THEN r.expense ELSE <<"0">>

\* parseFloat(rawExpense) || 0
Expense(r) ==
  LET parsed == parseFloat(rawExpense(r))
  IN IF parsed = <<>> \/ parsed = <<0>> THEN 0 ELSE parsed[1]

\* The row the map step returns: the row with Date and Expense replaced.
MapRow(r) == [Date |-> NewDate(r.Date), Expense |-> Expense(r), expense |-> r.expense]

hasValidDate(m) == m.Date # <<>>
hasValidExpense(m) == m.Expense > 0

\* jsonData.map(...).filter(...)
processedData(jsonData) ==
  LET mapped == [i \in 1..Len(jsonData) |-> MapRow(jsonData[i])]
      Kept(m) == hasValidDate(m) /\ hasValidExpense(m)
  IN SelectSeq(mapped, Kept)

\* processExcelFile resolves with the processed rows of a sheet.
ProcessExcelFile(jsonData) ==
  /\ ~sheet.done
  /\ sheet' = [done |-> TRUE, jsonData |-> jsonData,
               processedData |-> processedData(jsonData)]
  /\ UNCHANGED <<chatAll, rawData, filters, yearChange, categoriesData, row,
                 dashboardCategory, dateBounds, effectRounds, filtered>>

SheetNext == \E jsonData \in Sheets : ProcessExcelFile(jsonData)

SheetSpec == FilterInit /\ [][SheetNext]_vars

\* An expense cell that is a number: an optional sign and digits only.
IsNumeric(text) ==
  LET rest == IF text # <<>> /\ Head(text) \in {"-", "+"} THEN Tail(text) ELSE text
  IN rest # <<>> /\ \A i \in 1..Len(rest) : IsDigit(rest[i])

\* C29 as stated: every row processExcelFile returns has a valid date and
\* an Expense above 0; the rows whose date cannot be parsed or whose expense
\* is missing, non-numeric, zero or negative are dropped, and the rows kept
\* are in the order of the sheet.
C29_OnlyValidRowsKept ==
  sheet.done =>
    LET Stays(r) == /\ NewDate(r.Date) # <<>>
                    /\ IsNumeric(rawExpense(r))
                    /\ DigitsValue(SelectSeq(rawExpense(r), IsDigit)) > 0
                    /\ Head(rawExpense(r)) # "-"
        kept == SelectSeq(sheet.jsonData, Stays)
    IN /\ \A i \in 1..Len(sheet.processedData) :
            /\ sheet.processedData[i].Date # <<>>
            /\ sheet.processedData[i].Expense > 0
       /\ sheet.processedData = [i \in 1..Len(kept) |-> MapRow(kept[i])]

====
